---------------------------- MODULE Spec2Model ----------------------------
(***************************************************************************)
(* A model of src/src/index.ts of mcp-semantic-search: the bounded-retry   *)
(* initialisation (initWithRetry and its top-level wrapper), the promise   *)
(* chain of OpQueue.run, the metrics counters, the tool handlers and the   *)
(* metadata filter predicate of semantic_search.                           *)
(*                                                                         *)
(* One step of the model is one turn of the JavaScript event loop: a       *)
(* macrotask (an incoming tool call, the completion of an engine call, a   *)
(* timer) together with every promise continuation it makes runnable.      *)
(***************************************************************************)
EXTENDS Integers, Sequences, FiniteSets, TLC

\* ------------------------------------------------------------------ bounds
\* Largest retry budget handed to initWithRetry when its argument is drawn
\* from a set (the program itself passes the default).
MaxRetriesBound == 6
\* Smallest retry budget drawn, as a distance below zero: budgets start at
\* -RetriesBelowZero.
RetriesBelowZero == 1

\* Number of OpQueue.run calls made in one behaviour.
MaxTasks == 3
\* Longest documents array handed to semantic_index_batch.
MaxBatch == 2

\* Longest tags array, of a candidate and of a search call.
MaxTags == 2
\* Largest timestamp, in milliseconds since the epoch, of a candidate and of
\* a since argument.
MaxTimestamp == 2

\* ----------------------------------------------------- program constants
\* initWithRetry(maxRetries = 3)
DefaultMaxRetries == 3
\* setTimeout(r, 2000)
RetryDelayMs == 2000
\* process.exit(1)
InitFailureExitCode == 1

\* --------------------------------------------------------------- options
\* An optional JavaScript value: undefined is the empty set, a defined value
\* v is {v}.
None == {}
Some(v) == {v}
IsSome(o) == o # {}
Get(o) == CHOOSE v \in o : TRUE

VARIABLES
    \* initWithRetry and the top-level wrapper
    maxRetries,     \* argument of initWithRetry
    attempt,        \* loop variable of initWithRetry
    ipc,            \* position in initWithRetry
    initCalls,      \* number of search.init() invocations so far
    initErrs,       \* errors of the failed attempts, in order
    waited,         \* total milliseconds spent in the retry delay
    thrownErr,      \* the error initWithRetry threw, if any
    proc,           \* "starting", "serving" (server connected), "exited"
                    \* (process.exit) or "crashed" (uncaught exception)
    exitCode        \* exit status once proc = "exited"

initVars == <<maxRetries, attempt, ipc, initCalls, initErrs, waited, thrownErr,
              proc, exitCode>>

VARIABLES
    \* the Node.js runtime
    unhandledRejections, \* mode of --unhandled-rejections: "throw" or "warn"
    \* OpQueue and the promises it creates
    queue,          \* OpQueue.queue: the id of the promise it holds
    promise,        \* id -> state of the promise created by the id-th run call
    tasks,          \* the run calls made so far, in call order
    started,        \* ids of the tasks whose fn was invoked, in invocation order
    \* shared state
    metrics,        \* the metrics object
    docs,           \* ids of the documents held by the engine
    health,         \* semantic_health handler: "idle" or "probing"
    answer          \* what a handler that answers without opQueue.run answered
                    \* in the latest turn: "none" when no such handler answered

queueVars == <<unhandledRejections, queue, promise, tasks, started, metrics, docs,
               health, answer>>

VARIABLES
    \* one evaluation of the filter predicate of semantic_search
    meta,           \* the candidate's metadata, or undefined
    kind,           \* the handler's kind argument, or undefined
    tags,           \* the handler's tags argument, or undefined
    since,          \* the handler's since argument, or undefined
    retained        \* what the predicate returned, once it has been called

filterVars == <<meta, kind, tags, since, retained>>

vars == <<initVars, queueVars, filterVars>>

\* ------------------------------------------------------- initWithRetry
\* The error the k-th invocation of search.init() rejects with: every
\* attempt fails with an error of its own.
InitError(k) == k

\* An off-by-one loop bound: attempt < maxRetries.
LoopCondition_OffByOne(a, m) == a < m

\* for (let attempt = 1; attempt <= maxRetries; attempt++)
LoopCondition(a, m) == a <= m

\* The last attempt taken to be the one after the budget: the failure of
\* attempt maxRetries is followed by a delay.
IsLastAttempt_OneLate(a, m) == a = m + 1

\* if (attempt === maxRetries) ... throw err
IsLastAttempt(a, m) == a = m

\* The loop test: either the body is entered and search.init() is invoked,
\* or the loop ends and the function returns.
LoopTest ==
    /\ ipc = "loop"
    /\ proc = "starting"
    /\ IF LoopCondition(attempt, maxRetries)
          THEN /\ ipc' = "init"
               /\ initCalls' = initCalls + 1
          ELSE /\ ipc' = "returned"
               /\ UNCHANGED initCalls
    /\ UNCHANGED <<maxRetries, attempt, initErrs, waited, thrownErr, proc, exitCode>>
    /\ UNCHANGED <<queueVars, filterVars>>

\* await search.init() resolves: return.
InitSucceeds ==
    /\ ipc = "init"
    /\ ipc' = "returned"
    /\ UNCHANGED <<maxRetries, attempt, initCalls, initErrs, waited, thrownErr,
                   proc, exitCode>>
    /\ UNCHANGED <<queueVars, filterVars>>

\* await search.init() rejects: rethrow on the last attempt, otherwise start
\* the fixed delay.
InitFails ==
    /\ ipc = "init"
    /\ initErrs' = Append(initErrs, InitError(attempt))
    /\ IF IsLastAttempt(attempt, maxRetries)
          THEN /\ thrownErr' = Some(InitError(attempt))
               /\ ipc' = "thrown"
          ELSE /\ ipc' = "delay"
               /\ UNCHANGED thrownErr
    /\ UNCHANGED <<maxRetries, attempt, initCalls, waited, proc, exitCode>>
    /\ UNCHANGED <<queueVars, filterVars>>

\* The timer of the retry delay fires; the loop increments attempt.
DelayElapses ==
    /\ ipc = "delay"
    /\ waited' = waited + RetryDelayMs
    /\ attempt' = attempt + 1
    /\ ipc' = "loop"
    /\ UNCHANGED <<maxRetries, initCalls, initErrs, thrownErr, proc, exitCode>>
    /\ UNCHANGED <<queueVars, filterVars>>

\* try { await initWithRetry() } catch { process.exit(1) }, then the rest of
\* the module up to server.connect.
InitReturned ==
    /\ ipc = "returned"
    /\ proc = "starting"
    /\ proc' = "serving"
    /\ UNCHANGED <<maxRetries, attempt, ipc, initCalls, initErrs, waited, thrownErr,
                   exitCode>>
    /\ UNCHANGED <<queueVars, filterVars>>

\* The catch block of the top-level wrapper without process.exit: the module
\* goes on to connect the server.
InitThrew_NoExit ==
    /\ ipc = "thrown"
    /\ proc = "starting"
    /\ proc' = "serving"
    /\ UNCHANGED <<maxRetries, attempt, ipc, initCalls, initErrs, waited, thrownErr,
                   exitCode>>
    /\ UNCHANGED <<queueVars, filterVars>>

\* catch { process.exit(1) }
InitThrew ==
    /\ ipc = "thrown"
    /\ proc = "starting"
    /\ proc' = "exited"
    /\ exitCode' = Some(InitFailureExitCode)
    /\ UNCHANGED <<maxRetries, attempt, ipc, initCalls, initErrs, waited, thrownErr>>
    /\ UNCHANGED <<queueVars, filterVars>>

\* ---------------------------------------------------------- OpQueue.run
\* Document ids the tool calls draw from.
DocIds == {"a", "b"}

\* The documents arrays semantic_index_batch is called with: one array of
\* each length up to MaxBatch, its ids alternating (so a longer array
\* repeats an id).
BatchOf(n) == [k \in 1..n |-> IF k % 2 = 1 THEN "a" ELSE "b"]
Batches == {BatchOf(n) : n \in 0..MaxBatch}

\* Handlers whose fn awaits an engine call (search, addDocument,
\* addDocuments), and handlers whose fn only makes synchronous engine calls
\* (remove, size and clear).
AsyncOps == {"search", "index", "batch"}
SyncOps == {"remove", "clear"}

Range(f) == {f[x] : x \in DOMAIN f}
Min(S) == CHOOSE x \in S : \A y \in S : x <= y

\* The value the fn of the i-th run call resolves with, and the error it
\* rejects with: each task has a result and an error of its own.
FnResult(i) == i
FnError(i) == i

\* The state one turn of the event loop works on.
QState ==
    [queue |-> queue, promise |-> promise, tasks |-> tasks, started |-> started,
     metrics |-> metrics, docs |-> docs]

\* run awaiting the promise the queue was constructed with instead of the
\* current this.queue.
PrevOf_Stale(s) == 0

\* const prev = this.queue
PrevOf(s) == s.queue

\* The synchronous part of run(fn): capture prev, replace this.queue by a new
\* pending promise, suspend at await prev.
RunCall(s, op, arg) ==
    LET i == Len(s.tasks) + 1
        t == [op |-> op, arg |-> arg, prev |-> PrevOf(s), fn |-> "notStarted",
              run |-> "pending", out |-> None]
    IN [s EXCEPT !.tasks = Append(@, t),
                 !.promise = @ @@ (i :> [st |-> "pending", err |-> None]),
                 !.queue = i]

\* resolve kept in a field shared by all run calls instead of a local of each:
\* a finishing task resolves the promise of the latest run call.
RunReturn_SharedResolver(s, i, v) ==
    [s EXCEPT !.promise[s.queue] = [st |-> "fulfilled", err |-> None],
              !.tasks[i].run = "resolved",
              !.tasks[i].out = Some(v)]

\* resolve!(result); return result
RunReturn(s, i, v) ==
    [s EXCEPT !.promise[i] = [st |-> "fulfilled", err |-> None],
              !.tasks[i].run = "resolved",
              !.tasks[i].out = Some(v)]

\* The catch block without reject!(err): the promise the next run call
\* awaits is never settled.
RunCatch_NoReject(s, i, e) ==
    [s EXCEPT !.metrics.errors = @ + 1,
              !.tasks[i].run = "rejected",
              !.tasks[i].out = Some(e)]

\* The catch block without metrics.errors++.
RunCatch_NoCount(s, i, e) ==
    [s EXCEPT !.promise[i] = [st |-> "rejected", err |-> Some(e)],
              !.tasks[i].run = "rejected",
              !.tasks[i].out = Some(e)]

\* catch (err) { reject!(err); metrics.errors++; throw err; }
RunCatch(s, i, e) ==
    [s EXCEPT !.promise[i] = [st |-> "rejected", err |-> Some(e)],
              !.metrics.errors = @ + 1,
              !.tasks[i].run = "rejected",
              !.tasks[i].out = Some(e)]

\* The batch handler counting one per call: documentsAdded++ in place of
\* documentsAdded += documents.length.
HandlerEffect_BatchCountsOne(s, i) ==
    LET t == s.tasks[i] IN
    CASE t.op = "search" -> [s EXCEPT !.metrics.searches = @ + 1]
      [] t.op = "index"  -> [s EXCEPT !.docs = @ \cup {t.arg[1]},
                                      !.metrics.documentsAdded = @ + 1]
      [] t.op = "batch"  -> [s EXCEPT !.docs = @ \cup Range(t.arg),
                                      !.metrics.documentsAdded = @ + 1]
      [] t.op = "remove" -> IF t.arg[1] \in s.docs
                               THEN [s EXCEPT !.docs = @ \ {t.arg[1]},
                                              !.metrics.documentsRemoved = @ + 1]
                               ELSE s
      [] t.op = "clear"  -> [s EXCEPT !.docs = {}]

\* A clear that also resets the count of documents added.
HandlerEffect_ClearResetsAdded(s, i) ==
    LET t == s.tasks[i] IN
    CASE t.op = "search" -> [s EXCEPT !.metrics.searches = @ + 1]
      [] t.op = "index"  -> [s EXCEPT !.docs = @ \cup {t.arg[1]},
                                      !.metrics.documentsAdded = @ + 1]
      [] t.op = "batch"  -> [s EXCEPT !.docs = @ \cup Range(t.arg),
                                      !.metrics.documentsAdded = @ + Len(t.arg)]
      [] t.op = "remove" -> IF t.arg[1] \in s.docs
                               THEN [s EXCEPT !.docs = @ \ {t.arg[1]},
                                              !.metrics.documentsRemoved = @ + 1]
                               ELSE s
      [] t.op = "clear"  -> [s EXCEPT !.docs = {}, !.metrics.documentsAdded = 0]

\* What the fn of a handler does once its engine call has succeeded: the
\* engine's effect on the index and the handler's metrics update.
HandlerEffect(s, i) ==
    LET t == s.tasks[i] IN
    CASE t.op = "search" -> [s EXCEPT !.metrics.searches = @ + 1]
      [] t.op = "index"  -> [s EXCEPT !.docs = @ \cup {t.arg[1]},
                                      !.metrics.documentsAdded = @ + 1]
      [] t.op = "batch"  -> [s EXCEPT !.docs = @ \cup Range(t.arg),
                                      !.metrics.documentsAdded = @ + Len(t.arg)]
      [] t.op = "remove" -> IF t.arg[1] \in s.docs
                               THEN [s EXCEPT !.docs = @ \ {t.arg[1]},
                                              !.metrics.documentsRemoved = @ + 1]
                               ELSE s
      [] t.op = "clear"  -> [s EXCEPT !.docs = {}]

\* const result = await fn(): fn is invoked. An fn that awaits an engine call
\* suspends there; an fn without an await runs to its end, and run returns
\* in the same turn.
StartFn(s, i) ==
    LET s1 == [s EXCEPT !.started = Append(@, i)] IN
    IF s.tasks[i].op \in AsyncOps
       THEN [s1 EXCEPT !.tasks[i].fn = "running"]
       ELSE RunReturn([HandlerEffect(s1, i) EXCEPT !.tasks[i].fn = "fulfilled"],
                      i, FnResult(i))

\* await prev, inside the try block: a fulfilled prev lets fn start, a
\* rejected prev throws its error into the catch block.
AfterAwaitPrev(s, i) ==
    LET p == s.promise[s.tasks[i].prev] IN
    IF p.st = "fulfilled" THEN StartFn(s, i) ELSE RunCatch(s, i, Get(p.err))

\* The run calls whose await prev can continue.
Runnable(s) ==
    {i \in 1..Len(s.tasks) :
        /\ s.tasks[i].run = "pending"
        /\ s.tasks[i].fn = "notStarted"
        /\ s.promise[s.tasks[i].prev].st # "pending"}

\* The microtask queue is emptied before the turn ends: the continuations
\* of the run calls whose prev has settled run one after the other, oldest
\* first, until none is left. (t is s, bound so that its value is computed
\* once.)
RECURSIVE Drain(_)
Drain(s) ==
    LET Continue(t) == IF Runnable(t) = {}
                          THEN t
                          ELSE Drain(AfterAwaitPrev(t, Min(Runnable(t))))
    IN CHOOSE r \in {Continue(t) : t \in {s}} : TRUE

\* A promise rejected during the turn that no await has attached a handler
\* to when the turn ends: the promise run created is awaited only by the next
\* run call.
UnhandledRejection(s) ==
    \E k \in 1..Len(s.tasks) :
        /\ s.promise[k].st = "rejected"
        /\ k \in DOMAIN promise => promise[k].st = "pending"
        /\ \A j \in 1..Len(s.tasks) : s.tasks[j].prev # k

\* End of a turn: the new state, and Node's treatment of an unhandled
\* rejection (an uncaught exception that ends the process in mode "throw", a
\* warning in mode "warn").
EndTurn(s) ==
    /\ queue' = s.queue
    /\ promise' = s.promise
    /\ tasks' = s.tasks
    /\ started' = s.started
    /\ metrics' = s.metrics
    /\ docs' = s.docs
    /\ proc' = IF UnhandledRejection(s) /\ unhandledRejections = "throw"
                  THEN "crashed" ELSE proc

initFrame == <<maxRetries, attempt, ipc, initCalls, initErrs, waited, thrownErr,
               exitCode>>

\* A tool handler calls opQueue.run(fn).
Run(op, arg) ==
    /\ proc = "serving"
    /\ Len(tasks) < MaxTasks
    /\ \E t \in {Drain(RunCall(QState, op, arg))} : EndTurn(t)
    /\ answer' = "none"
    /\ UNCHANGED <<initFrame, filterVars, unhandledRejections, health>>

\* The engine call the fn of task i awaits resolves: fn finishes and resolves,
\* run resolves the queue promise and returns.
EngineResolves(i) ==
    /\ proc = "serving"
    /\ i \in 1..Len(tasks)
    /\ tasks[i].fn = "running"
    /\ LET s1 == [HandlerEffect(QState, i) EXCEPT !.tasks[i].fn = "fulfilled"]
       IN \E t \in {Drain(RunReturn(s1, i, FnResult(i)))} : EndTurn(t)
    /\ answer' = "none"
    /\ UNCHANGED <<initFrame, filterVars, unhandledRejections, health>>

\* The engine call the fn of task i awaits rejects: fn rejects and run's catch
\* block runs.
EngineRejects(i) ==
    /\ proc = "serving"
    /\ i \in 1..Len(tasks)
    /\ tasks[i].fn = "running"
    /\ LET s1 == [QState EXCEPT !.tasks[i].fn = "rejected"]
       IN \E t \in {Drain(RunCatch(s1, i, FnError(i)))} : EndTurn(t)
    /\ answer' = "none"
    /\ UNCHANGED <<initFrame, filterVars, unhandledRejections, health>>

\* ------------------------------------------------------- tool handlers
SemanticSearch == Run("search", <<>>)

SemanticIndex == \E id \in DocIds : Run("index", <<id>>)

SemanticIndexBatch == \E documents \in Batches : Run("batch", documents)

SemanticRemove == \E id \in DocIds : Run("remove", <<id>>)

\* The confirm test placed after the clear: the index is emptied, outside the
\* queue, before the handler answers that it cancelled.
SemanticClear_ClearsBeforeGate ==
    \E confirm \in BOOLEAN :
        IF confirm
           THEN Run("clear", <<>>)
           ELSE /\ proc = "serving"
                /\ answer' = "cancelled"
                /\ docs' = {}
                /\ UNCHANGED <<initVars, filterVars, unhandledRejections, queue, promise,
                               tasks, started, metrics, health>>

\* semantic_clear: without confirm it answers at once, with confirm it runs
\* the clear through the queue.
SemanticClear ==
    \E confirm \in BOOLEAN :
        IF confirm
           THEN Run("clear", <<>>)
           ELSE /\ proc = "serving"
                /\ answer' = "cancelled"
                /\ UNCHANGED <<initVars, filterVars, unhandledRejections, queue, promise,
                               tasks, started, metrics, docs, health>>

\* semantic_stats reads search.size() and the metrics and answers at once.
SemanticStats ==
    /\ proc = "serving"
    /\ answer' = "stats"
    /\ UNCHANGED <<initVars, filterVars, unhandledRejections, queue, promise, tasks, started,
                   metrics, docs, health>>

\* semantic_health: await search.search('test', { limit: 1 }) is called by
\* the handler itself, not through opQueue.run.
HealthProbe ==
    /\ proc = "serving"
    /\ health = "idle"
    /\ health' = "probing"
    /\ answer' = "none"
    /\ UNCHANGED <<initVars, filterVars, unhandledRejections, queue, promise, tasks, started,
                   metrics, docs>>

\* The health handler counting its probe as a search.
HealthAnswers_CountsProbe ==
    /\ proc = "serving"
    /\ health = "probing"
    /\ health' = "idle"
    /\ \E ok \in BOOLEAN :
          /\ answer' = IF ok THEN "healthy" ELSE "unhealthy"
          /\ metrics' = IF ok THEN [metrics EXCEPT !.searches = @ + 1] ELSE metrics
    /\ UNCHANGED <<initVars, filterVars, unhandledRejections, queue, promise, tasks, started,
                   docs>>

\* The probe search settles: the handler answers Healthy when it resolved and
\* Unhealthy when it rejected, and changes no counter.
HealthAnswers ==
    /\ proc = "serving"
    /\ health = "probing"
    /\ health' = "idle"
    /\ \E ok \in BOOLEAN : answer' = IF ok THEN "healthy" ELSE "unhealthy"
    /\ UNCHANGED <<initVars, filterVars, unhandledRejections, queue, promise, tasks, started,
                   metrics, docs>>

\* ------------------------------------------- semantic_search filter
\* ISO dates, the n-th being n - 1 milliseconds after the epoch.
IsoDates ==
    <<"1970-01-01T00:00:00.000Z", "1970-01-01T00:00:00.001Z",
      "1970-01-01T00:00:00.002Z", "1970-01-01T00:00:00.003Z",
      "1970-01-01T00:00:00.004Z">>

\* Date.parse: the milliseconds of an ISO date, NaN (None) for any other
\* string.
DateParse(str) ==
    IF \E n \in 1..Len(IsoDates) : IsoDates[n] = str
       THEN Some((CHOOSE n \in 1..Len(IsoDates) : IsoDates[n] = str) - 1)
       ELSE None

\* JavaScript truthiness of an optional string and of an optional number.
TruthyString(o) == IsSome(o) /\ Get(o) # ""
TruthyNumber(o) == IsSome(o) /\ Get(o) # 0

\* a < b on numbers, b possibly NaN: false when b is NaN.
LessThan(a, b) == IsSome(b) /\ a < Get(b)

\* meta?.kind, meta?.tags, meta?.timestamp
MetaKind(m) == IF IsSome(m) THEN Get(m).kind ELSE None
MetaTags(m) == IF IsSome(m) THEN Get(m).tags ELSE None
MetaTimestamp(m) == IF IsSome(m) THEN Get(m).timestamp ELSE None

\* tags.some((t) => meta.tags?.includes(t))
SomeTagIncluded(ts, mts) ==
    \E i \in 1..Len(ts) : \E j \in 1..Len(mts) : mts[j] = ts[i]

\* The tags test with every in place of some.
Filter_EveryTag(m, k, ts, sn) ==
    IF TruthyString(k) /\ MetaKind(m) # k THEN FALSE
    ELSE IF IsSome(ts) /\ (~IsSome(MetaTags(m))
                           \/ ~(\A i \in 1..Len(Get(ts)) :
                                  \E j \in 1..Len(Get(MetaTags(m))) :
                                     Get(MetaTags(m))[j] = Get(ts)[i]))
       THEN FALSE
    ELSE IF /\ TruthyString(sn)
            /\ TruthyNumber(MetaTimestamp(m))
            /\ LessThan(Get(MetaTimestamp(m)), DateParse(Get(sn)))
       THEN FALSE
    ELSE TRUE

\* filter: (meta) => { if (kind && ...) return false; if (tags && ...) return
\* false; if (since && ...) return false; return true; }
Filter(m, k, ts, sn) ==
    IF TruthyString(k) /\ MetaKind(m) # k THEN FALSE
    ELSE IF IsSome(ts) /\ (~IsSome(MetaTags(m))
                           \/ ~SomeTagIncluded(Get(ts), Get(MetaTags(m))))
       THEN FALSE
    ELSE IF /\ TruthyString(sn)
            /\ TruthyNumber(MetaTimestamp(m))
            /\ LessThan(Get(MetaTimestamp(m)), DateParse(Get(sn)))
       THEN FALSE
    ELSE TRUE

\* The inputs of one evaluation.
Option(S) == {None} \cup {Some(v) : v \in S}
Kinds == {"", "decision", "Decision"}
TagNames == {"auth", "jwt"}
TagArrays == UNION {[1..n -> TagNames] : n \in 0..MaxTags}
Timestamps == 0..MaxTimestamp
SinceStrings == {"", "yesterday"} \cup {IsoDates[n + 1] : n \in Timestamps}
Metas ==
    Option([kind : Option(Kinds), tags : Option(TagArrays),
            timestamp : Option(Timestamps)])

\* The engine calls the predicate on a candidate.
ApplyFilter ==
    /\ retained = None
    /\ retained' = Some(Filter(meta, kind, tags, since))
    /\ UNCHANGED <<initVars, queueVars, meta, kind, tags, since>>

\* No evaluation of the predicate is modelled while the program runs.
FilterIdle ==
    /\ meta = None
    /\ kind = None
    /\ tags = None
    /\ since = None
    /\ retained = None

\* const metrics = { searches: 0, ... }, new OpQueue(): queue = Promise.resolve()
QueueInit ==
    /\ queue = 0
    /\ promise = (0 :> [st |-> "fulfilled", err |-> None])
    /\ tasks = <<>>
    /\ started = <<>>
    /\ metrics = [searches |-> 0, documentsAdded |-> 0, documentsRemoved |-> 0,
                  errors |-> 0, startTime |-> 0]
    /\ docs = {}
    /\ health = "idle"
    /\ answer = "none"

InitCommon ==
    /\ QueueInit
    /\ FilterIdle
    /\ attempt = 1
    /\ ipc = "loop"
    /\ initCalls = 0
    /\ initErrs = <<>>
    /\ waited = 0
    /\ thrownErr = None
    /\ proc = "starting"
    /\ exitCode = None

\* initWithRetry called with any retry budget.
InitAnyBudget ==
    /\ maxRetries \in (0 - RetriesBelowZero)..MaxRetriesBound
    /\ unhandledRejections = "throw"
    /\ InitCommon

NextInit ==
    \/ LoopTest
    \/ InitSucceeds
    \/ InitFails
    \/ DelayElapses
    \/ InitReturned
    \/ InitThrew

SpecInit == InitAnyBudget /\ [][NextInit]_vars

\* The filter predicate on every candidate and every filter of the bounded
\* sets, in a process that is serving.
InitFilter ==
    /\ meta \in Metas
    /\ kind \in Option(Kinds)
    /\ tags \in Option(TagArrays)
    /\ since \in Option(SinceStrings)
    /\ retained = None
    /\ QueueInit
    /\ unhandledRejections = "throw"
    /\ maxRetries = DefaultMaxRetries
    /\ attempt = 1
    /\ ipc = "returned"
    /\ initCalls = 1
    /\ initErrs = <<>>
    /\ waited = 0
    /\ thrownErr = None
    /\ proc = "serving"
    /\ exitCode = None

NextFilter == ApplyFilter

SpecFilter == InitFilter /\ [][NextFilter]_vars

\* The program: await initWithRetry() with the default budget, under either
\* mode of the runtime.
Init ==
    /\ maxRetries = DefaultMaxRetries
    /\ unhandledRejections \in {"throw", "warn"}
    /\ InitCommon

Next ==
    \/ NextInit
    \/ SemanticSearch
    \/ SemanticIndex
    \/ SemanticIndexBatch
    \/ SemanticRemove
    \/ SemanticClear
    \/ SemanticStats
    \/ HealthProbe
    \/ HealthAnswers
    \/ \E i \in 1..MaxTasks : EngineResolves(i)
    \/ \E i \in 1..MaxTasks : EngineRejects(i)

Spec == Init /\ [][Next]_vars

\* The engine call awaited by the fn of each queued task settles: it resolves
\* or rejects at some time after fn has called it.
EngineCallsSettle ==
    \A i \in 1..MaxTasks : WF_vars(EngineResolves(i) \/ EngineRejects(i))

\* The program, every awaited engine call of a queued task settling.
SpecProgress == Init /\ [][Next]_vars /\ EngineCallsSettle

\* ================================================================ claims
TaskIds == 1..Len(tasks)
Running == {i \in TaskIds : tasks[i].fn = "running"}
FnSettled(i) == tasks[i].fn \in {"fulfilled", "rejected"}
FnStarted(i) == tasks[i].fn # "notStarted"
RunSettled(i) == tasks[i].run # "pending"

\* C1: mutual exclusion in OpQueue. At most one task's fn is running (started
\* and not settled) in any reachable state, and the fn of the task enqueued
\* (N+1)-th has not started unless the fn of the N-th has resolved or
\* rejected.
C1_MutualExclusion ==
    /\ Cardinality(Running) <= 1
    /\ \A i \in TaskIds : (i > 1 /\ FnStarted(i)) => FnSettled(i - 1)

\* Three overlapping run calls: the first has finished, the second is running
\* and the third waits for it.
C1_Witness ==
    /\ Len(tasks) = 3
    /\ tasks[1].fn = "fulfilled"
    /\ tasks[2].fn = "running"
    /\ tasks[3].fn = "notStarted" /\ tasks[3].run = "pending"

\* C2: FIFO admission order in OpQueue. The order in which the tasks' fns are
\* invoked is the order of the run calls: the ids in started increase, and no
\* task has started while a task enqueued before it has not.
C2_FifoStartOrder ==
    /\ \A k \in 1..(Len(started) - 1) : started[k] < started[k + 1]
    /\ \A i, j \in TaskIds : (i < j /\ FnStarted(j)) => FnStarted(i)

\* Three run calls whose fns all awaited an engine call, started in call
\* order, the last one still running.
C2_Witness ==
    /\ started = <<1, 2, 3>>
    /\ \A i \in 1..3 : tasks[i].op \in AsyncOps
    /\ tasks[3].fn = "running"

\* C3: failure isolation in OpQueue. If the fn of task N rejects, the fn of
\* every later task is still executed: a later run call that has settled has
\* had its fn invoked.
C3_FailureIsolation ==
    \A n, m \in TaskIds :
        (n < m /\ tasks[n].fn = "rejected" /\ RunSettled(m)) => FnStarted(m)

\* C4: own outcome in OpQueue. The promise run returns resolves with the
\* value its own fn resolved with, or rejects with the error its own fn
\* rejected with.
C4_OwnOutcome ==
    \A i \in TaskIds :
        /\ tasks[i].run = "resolved" =>
              (tasks[i].fn = "fulfilled" /\ tasks[i].out = Some(FnResult(i)))
        /\ tasks[i].run = "rejected" =>
              (tasks[i].fn = "rejected" /\ tasks[i].out = Some(FnError(i)))

\* C5: error counter exactness. Once every run call has settled,
\* metrics.errors is the number of tasks whose own fn rejected.
C5_ErrorCounterExact ==
    (\A i \in TaskIds : RunSettled(i)) =>
        metrics.errors = Cardinality({i \in TaskIds : tasks[i].fn = "rejected"})

\* C6: retry bound of initWithRetry, for a budget of at least one attempt.
\* search.init() is invoked at most maxRetries times; the routine returns
\* normally only right after a successful attempt, j failures and j + 1
\* invocations; when all maxRetries attempts have failed it has thrown the
\* error of the last attempt after exactly maxRetries invocations, the server
\* is never connected and the exit status is non-zero.
C6_RetryBound ==
    maxRetries >= 1 =>
        /\ initCalls <= maxRetries
        /\ ipc = "returned" =>
              (initCalls = Len(initErrs) + 1 /\ thrownErr = None)
        /\ Len(initErrs) = maxRetries => ipc = "thrown"
        /\ ipc = "thrown" =>
              /\ initCalls = maxRetries
              /\ Len(initErrs) = maxRetries
              /\ thrownErr = Some(initErrs[Len(initErrs)])
              /\ proc \in {"starting", "exited"}
        /\ proc = "exited" => (ipc = "thrown" /\ exitCode # None /\ Get(exitCode) # 0)
        /\ proc = "serving" => ipc = "returned"

\* The default budget exhausted: three failed attempts, the last error
\* rethrown, the process exited.
C6_Witness ==
    /\ maxRetries = DefaultMaxRetries
    /\ initCalls = DefaultMaxRetries
    /\ Len(initErrs) = DefaultMaxRetries
    /\ ipc = "thrown"
    /\ proc = "exited"

\* C7: only initialization failure is fatal. The process has terminated only
\* if initWithRetry threw, and the promise OpQueue holds is never a rejected
\* one (a rejected this.queue makes await prev of every later run call throw
\* before fn is invoked).
C7_OnlyInitFailureFatal ==
    /\ proc \in {"exited", "crashed"} => ipc = "thrown"
    /\ promise[queue].st # "rejected"

\* C8: exclusive engine ownership. While the fn of a queued task is running,
\* no engine call made by the health or stats handler itself is in progress
\* or has just been made.
C8_ExclusiveEngineOwnership ==
    Running # {} => (health # "probing" /\ answer # "stats")

\* The constraints of a filter as the claims state them.
SinceInstant == DateParse(Get(since))
TimestampNotEarlier ==
    /\ IsSome(MetaTimestamp(meta))
    /\ Get(MetaTimestamp(meta)) >= Get(SinceInstant)
KindEquals == IsSome(MetaKind(meta)) /\ Get(MetaKind(meta)) = Get(kind)
TagsIntersect ==
    /\ IsSome(MetaTags(meta))
    /\ Range(Get(MetaTags(meta))) \cap Range(Get(tags)) # {}

\* C9: the since constraint. With a since that is a date and no other
\* constraint, a candidate is retained iff its metadata has a timestamp and
\* the timestamp is not earlier than the instant of since.
C9_SinceInclusive ==
    (/\ IsSome(retained)
     /\ kind = None /\ tags = None
     /\ IsSome(since) /\ IsSome(SinceInstant))
        => (Get(retained) <=> TimestampNotEarlier)

Counters == {"searches", "documentsAdded", "documentsRemoved", "errors"}

\* C11 as claimed: the turn in which a health call answers Healthy (its probe
\* search succeeded) increments metrics.searches by exactly one and leaves
\* documentsAdded, documentsRemoved and errors unchanged; the turn of a stats
\* call leaves all four counters unchanged.
C11_HealthProbeCounted ==
    [][/\ answer' = "healthy" =>
             /\ metrics'.searches = metrics.searches + 1
             /\ \A c \in Counters \ {"searches"} : metrics'[c] = metrics[c]
       /\ answer' = "stats" => \A c \in Counters : metrics'[c] = metrics[c]]_vars

\* C11 as amended: the turn in which a health call answers (Healthy or
\* Unhealthy) leaves all four counters unchanged, searches too, and so does
\* the turn of a stats call.
C11_HealthAndStatsLeaveCounters ==
    [][answer' \in {"healthy", "unhealthy", "stats"} =>
          \A c \in Counters : metrics'[c] = metrics[c]]_vars

\* A health call has answered Healthy after a queued search was counted: the
\* counter stands at that one search.
C11_Witness ==
    /\ answer = "healthy"
    /\ metrics.searches = 1
    /\ \E i \in TaskIds : tasks[i].op = "search" /\ tasks[i].run = "resolved"

\* The documents the i-th run call has added: the batch size of a batch add
\* and one of a single add whose engine call succeeded, nothing of any other
\* task.
AddedBy(i) ==
    IF tasks[i].fn # "fulfilled" THEN 0
    ELSE IF tasks[i].op = "batch" THEN Len(tasks[i].arg)
    ELSE IF tasks[i].op = "index" THEN 1
    ELSE 0

RECURSIVE AddedUpTo(_)
AddedUpTo(n) == IF n = 0 THEN 0 ELSE AddedBy(n) + AddedUpTo(n - 1)

OwnFailures == {i \in TaskIds : tasks[i].fn = "rejected"}

\* C12: add metrics. documentsAdded is the sum, over the adds whose engine
\* call succeeded, of the batch size (batch add) or one (single add): an add
\* whose engine call failed has added nothing. searches is the number of
\* queued searches whose engine call succeeded. A task whose engine call
\* failed has rejected with its own error, and errors counts every such task.
C12_AddMetrics ==
    /\ metrics.documentsAdded = AddedUpTo(Len(tasks))
    /\ metrics.searches =
          Cardinality({i \in TaskIds : tasks[i].op = "search" /\ tasks[i].fn = "fulfilled"})
    /\ \A i \in OwnFailures :
          tasks[i].run = "rejected" /\ tasks[i].out = Some(FnError(i))
    /\ metrics.errors >= Cardinality(OwnFailures)

\* A batch add of two documents and a search have succeeded, then a single
\* add has failed.
C12_Witness ==
    /\ Len(tasks) = 3
    /\ tasks[1].op = "batch" /\ Len(tasks[1].arg) = 2 /\ tasks[1].fn = "fulfilled"
    /\ tasks[2].op = "search" /\ tasks[2].fn = "fulfilled"
    /\ tasks[3].op = "index" /\ tasks[3].fn = "rejected"
    /\ metrics.documentsAdded = 2
    /\ metrics.errors = 1

\* The fn of the i-th run call ran to its end in the step.
ExecutedInStep(i) ==
    /\ i \in 1..Len(tasks')
    /\ tasks'[i].fn = "fulfilled"
    /\ i \in 1..Len(tasks) => tasks[i].fn # "fulfilled"

\* C13: clear confirmation gate. The turn in which clear without confirm
\* answers changes nothing else: no run call is made, no promise, task,
\* counter or document changes, the process and a pending probe are left
\* alone. A clear that runs as a queued task leaves the index empty, and the
\* index goes from non-empty to empty only in a turn in which the fn of a
\* queued clear or remove ran.
C13_ClearGate ==
    [][/\ answer' = "cancelled" =>
             UNCHANGED <<queue, promise, tasks, started, metrics, docs, health, proc>>
       /\ \A i \in 1..MaxTasks :
             (ExecutedInStep(i) /\ tasks'[i].op = "clear") => docs' = {}
       /\ (docs # {} /\ docs' = {}) =>
             \E i \in 1..MaxTasks :
                ExecutedInStep(i) /\ tasks'[i].op \in {"clear", "remove"}]_vars

\* clear without confirm has answered while documents are indexed and a
\* queued task is running.
C13_Witness ==
    /\ answer = "cancelled"
    /\ docs # {}
    /\ Running # {}

\* C14: remove outcomes. Every remove call that has answered has answered
\* normally, with the result of its own search.remove(id) (removed or not
\* found), never with an error; and the index never holds more documents
\* than were added less those removed.
C14_RemoveOutcomes ==
    /\ \A i \in TaskIds :
          (tasks[i].op = "remove" /\ RunSettled(i)) =>
             /\ tasks[i].run = "resolved"
             /\ tasks[i].fn = "fulfilled"
             /\ tasks[i].out = Some(FnResult(i))
    /\ Cardinality(docs) <= metrics.documentsAdded - metrics.documentsRemoved

RejectedInStep ==
    {i \in 1..Len(tasks') :
        /\ tasks'[i].run = "rejected"
        /\ i \in 1..Len(tasks) => tasks[i].run # "rejected"}

\* C16: error counting order. The catch block of run rejects the queue
\* promise, increments metrics.errors and rethrows without yielding, so in
\* any state a caller or a later task can observe, every rejected run call
\* has been counted: metrics.errors is the number of run calls that have
\* rejected, and a step adds to it the number of calls it rejects.
C16_ErrorCountedBeforeRethrow ==
    /\ [](metrics.errors = Cardinality({i \in TaskIds : tasks[i].run = "rejected"}))
    /\ [][metrics'.errors = metrics.errors + Cardinality(RejectedInStep)]_vars

\* A run call has rejected with its own error and the call queued behind it
\* has rejected too; both are counted.
C16_Witness ==
    /\ Len(tasks) >= 2
    /\ tasks[1].fn = "rejected" /\ tasks[1].run = "rejected"
    /\ tasks[2].run = "rejected"
    /\ metrics.errors = 2

\* C17: retry sequencing of initWithRetry. One invocation of search.init()
\* is in flight at most, the k-th being made only after k - 1 failures. The
\* routine has waited the fixed delay once for each failed attempt before
\* the current one, the same RetryDelayMs each time; a delay follows only the
\* failure of an attempt below maxRetries; and when attempt maxRetries has
\* failed the routine has thrown having waited maxRetries - 1 delays, none
\* after the last failure.
C17_RetrySequencing ==
    /\ initCalls - Len(initErrs) \in {0, 1}
    /\ waited = RetryDelayMs * (attempt - 1)
    /\ ipc = "loop" => (initCalls = attempt - 1 /\ Len(initErrs) = attempt - 1)
    /\ ipc = "init" => (initCalls = attempt /\ Len(initErrs) = attempt - 1)
    /\ ipc = "delay" =>
          (initCalls = attempt /\ Len(initErrs) = attempt /\ attempt < maxRetries)
    /\ ipc = "thrown" =>
          /\ attempt = maxRetries
          /\ Len(initErrs) = maxRetries
          /\ waited = RetryDelayMs * (maxRetries - 1)

\* The default budget exhausted: three failures, two delays of two seconds.
C17_Witness ==
    /\ maxRetries = DefaultMaxRetries
    /\ ipc = "thrown"
    /\ Len(initErrs) = DefaultMaxRetries
    /\ waited = (DefaultMaxRetries - 1) * RetryDelayMs

\* C18: counter monotonicity. No step of the program, whatever tool call or
\* settling of an engine call it is, succeeding or failing, lowers searches,
\* documentsAdded, documentsRemoved or errors, and none changes startTime.
C18_CountersMonotonic ==
    [][/\ \A c \in Counters : metrics'[c] >= metrics[c]
       /\ metrics'.startTime = metrics.startTime]_vars

\* A clear has run after documents were added and a search was counted: the
\* index is empty and the counters are where they were.
C18_Witness ==
    /\ \E i \in TaskIds : tasks[i].op = "clear" /\ tasks[i].fn = "fulfilled"
    /\ docs = {}
    /\ metrics.documentsAdded > 0
    /\ metrics.searches > 0

C20_ReadyBeforeService ==
    /\ (tasks # <<>> \/ started # <<>> \/ health = "probing" \/ answer # "none"
           \/ docs # {} \/ \E c \in Counters : metrics[c] # 0) =>
          /\ ipc = "returned"
          /\ initCalls = Len(initErrs) + 1
          /\ proc \in {"serving", "crashed"}
    /\ proc \in {"serving", "crashed"} => ipc = "returned"
    /\ ipc = "thrown" =>
          /\ proc \in {"starting", "exited"}
          /\ tasks = <<>> /\ started = <<>> /\ health = "idle" /\ answer = "none"

\* A task runs in a server that became ready at its third init attempt.
C20_Witness ==
    /\ Running # {}
    /\ proc = "serving"
    /\ ipc = "returned"
    /\ Len(initErrs) = DefaultMaxRetries - 1

=============================================================================
